---- MODULE Spec2Model ----
(***************************************************************************)
(* A model of test_process_executor (src/src/lib.rs): an Executor that     *)
(* holds a list of environment bindings and launches sub-processes with    *)
(* them, panicking when a launch does not succeed.                         *)
(*                                                                         *)
(* Three specifications share the definitions below:                       *)
(*   Spec     several caller threads sharing one Executor;                 *)
(*   SpecEnv  one caller, every binding list and parent environment;       *)
(*   SpecFmt  the Display formatter applied to every Execution value.      *)
(***************************************************************************)
EXTENDS Integers, Sequences, FiniteSets, TLC

(***************************************************************************)
(* Bounds of the model.                                                    *)
(***************************************************************************)
NumThreads == 2      \* caller threads sharing the Executor
MaxEnv == 2          \* length of the binding list given to Executor::new
MaxArgs == 1         \* argument tokens after the command (SpecFmt)
MaxOut == 2          \* bytes captured on stdout / on stderr (SpecFmt)

Threads == 1..NumThreads

SeqsUpTo(S, n) == UNION {[1..k -> S] : k \in 0..n}

(***************************************************************************)
(* Input domains.  Bytes: 0x68 'h', and 0xC3 0xA9, which together encode   *)
(* U+00E9 and are each invalid alone.                                      *)
(***************************************************************************)
Keys == {"FOO", "A"}
Vals == {"BAR", "BAZINGA"}
Bytes == {104, 195, 169}
ExitCodes == {0, 1}

Bindings == Keys \X Vals
EnvLists == SeqsUpTo(Bindings, MaxEnv)
SampleEnvs == {<< >>, << <<"FOO", "BAR">> >>,
               << <<"FOO", "BAR">>, <<"FOO", "BAZINGA">> >>}

\* An environment block: a set of <<key, value>> with one value per key.
IsEnvBlock(m) == \A p \in m : \A q \in m : p[1] = q[1] => p = q
EnvBlocks == {m \in SUBSET Bindings : IsEnvBlock(m)}
SampleParent == {{<<"FOO", "BAZINGA">>}}

ByteStrings == SeqsUpTo(Bytes, MaxOut)
SampleStreams == {<< >>, <<104>>, <<169>>}

Tokens == {<<104>>, <<195>>, <<195, 169>>}
ArgLists == SeqsUpTo(Tokens, MaxArgs)
SampleArgs == {<< >>, << <<104>>, <<195, 169>> >>}

(***************************************************************************)
(* std::str::from_utf8 (lines 110, 113) and OsStr::to_string_lossy (line   *)
(* 102), over one- and two-byte sequences.  Text is a sequence of code     *)
(* points.                                                                 *)
(***************************************************************************)
IsPair(b) == Len(b) >= 2 /\ b[1] \in 194..223 /\ b[2] \in 128..191
PairPoint(b) == (b[1] - 192) * 64 + (b[2] - 128)

RECURSIVE Utf8Valid(_)
Utf8Valid(b) ==
    IF b = << >> THEN TRUE
    ELSE IF b[1] < 128 THEN Utf8Valid(Tail(b))
    ELSE IF IsPair(b) THEN Utf8Valid(Tail(Tail(b)))
    ELSE FALSE

RECURSIVE Decode(_)
Decode(b) ==
    IF b = << >> THEN << >>
    ELSE IF b[1] < 128 THEN <<b[1]>> \o Decode(Tail(b))
    ELSE <<PairPoint(b)>> \o Decode(Tail(Tail(b)))

RECURSIVE ToStringLossy(_)
ToStringLossy(b) ==
    IF b = << >> THEN << >>
    ELSE IF b[1] < 128 THEN <<b[1]>> \o ToStringLossy(Tail(b))
    ELSE IF IsPair(b) THEN <<PairPoint(b)>> \o ToStringLossy(Tail(Tail(b)))
    ELSE <<65533>> \o ToStringLossy(Tail(b))

\* cmd.join(" ") (line 104).
RECURSIVE Join(_)
Join(ss) ==
    IF ss = << >> THEN << >>
    ELSE IF Len(ss) = 1 THEN ss[1]
    ELSE ss[1] \o <<32>> \o Join(Tail(ss))

\* ExitStatus::success (lines 87, 106).
SuccessAlways(status) == TRUE
Success(status) == status = 0

\* Display of ExitStatus (line 107), abbreviated to the digit of the code.
StatusText(status) == <<48 + status>>

(***************************************************************************)
(* Execution (lines 55-59).  An Option is a sequence of length 0 or 1.     *)
(***************************************************************************)
Output(status, out, err) == [status |-> status, stdout |-> out, stderr |-> err]
Execution(cmd, rest, result) == [cmd |-> cmd, args |-> rest, result |-> result]

(***************************************************************************)
(* Display for Execution (lines 93-118).  The written text is the sequence *)
(* of the chunks the write! calls append, each with its section, its ANSI  *)
(* colour (0: none) and its text.  ok is FALSE when an unwrap of from_utf8 *)
(* panics; decoded lists the streams from_utf8 was applied to.             *)
(***************************************************************************)
Chunk(sec, color, text) == [sec |-> sec, color |-> color, text |-> text]

CmdLine(e) ==
    Join([i \in 1..(Len(e.args) + 1) |->
            ToStringLossy(IF i = 1 THEN e.cmd ELSE e.args[i - 1])])

FmtSwapped(e) ==
    LET head == <<Chunk("cmd", 95, CmdLine(e))>>
    IN  IF e.result = << >>
        THEN [ok |-> TRUE, out |-> head, decoded |-> {}]
        ELSE
          LET r == e.result[1]
              s1 == head \o (IF ~Success(r.status)
                             THEN <<Chunk("status", 0, StatusText(r.status))>>
                             ELSE << >>)
          IN  IF r.stderr # << >> /\ ~Utf8Valid(r.stderr)
              THEN [ok |-> FALSE, out |-> s1, decoded |-> {"stderr"}]
              ELSE
                LET s2 == s1 \o (IF r.stderr # << >>
                                 THEN <<Chunk("stderr", 91, Decode(r.stderr))>>
                                 ELSE << >>)
                    d2 == IF r.stderr # << >> THEN {"stderr"} ELSE {}
                IN  IF r.stdout # << >> /\ ~Utf8Valid(r.stdout)
                    THEN [ok |-> FALSE, out |-> s2,
                          decoded |-> d2 \cup {"stdout"}]
                    ELSE [ok |-> TRUE,
                          out |-> s2 \o (IF r.stdout # << >>
                                 THEN <<Chunk("stdout", 92, Decode(r.stdout))>>
                                 ELSE << >>),
                          decoded |-> d2 \cup (IF r.stdout # << >>
                                               THEN {"stdout"} ELSE {})]

Fmt(e) ==
    LET head == <<Chunk("cmd", 95, CmdLine(e))>>
    IN  IF e.result = << >>
        THEN [ok |-> TRUE, out |-> head, decoded |-> {}]
        ELSE
          LET r == e.result[1]
              s1 == head \o (IF ~Success(r.status)
                             THEN <<Chunk("status", 0, StatusText(r.status))>>
                             ELSE << >>)
          IN  IF r.stdout # << >> /\ ~Utf8Valid(r.stdout)
              THEN [ok |-> FALSE, out |-> s1, decoded |-> {"stdout"}]
              ELSE
                LET s2 == s1 \o (IF r.stdout # << >>
                                 THEN <<Chunk("stdout", 92, Decode(r.stdout))>>
                                 ELSE << >>)
                    d2 == IF r.stdout # << >> THEN {"stdout"} ELSE {}
                IN  IF r.stderr # << >> /\ ~Utf8Valid(r.stderr)
                    THEN [ok |-> FALSE, out |-> s2,
                          decoded |-> d2 \cup {"stderr"}]
                    ELSE [ok |-> TRUE,
                          out |-> s2 \o (IF r.stderr # << >>
                                 THEN <<Chunk("stderr", 91, Decode(r.stderr))>>
                                 ELSE << >>),
                          decoded |-> d2 \cup (IF r.stderr # << >>
                                               THEN {"stderr"} ELSE {})]

(***************************************************************************)
(* Command::envs and the environment the spawned child receives (lines     *)
(* 80-83): each binding is inserted in list order into the command's map,  *)
(* a later insert of a key replacing the earlier one, and the map is laid  *)
(* over the environment inherited from the calling process.                *)
(***************************************************************************)
KeysOf(m) == {p[1] : p \in m}

InsertKeepFirst(m, k, v) == IF k \in KeysOf(m) THEN m ELSE m \cup {<<k, v>>}
Insert(m, k, v) == {p \in m : p[1] # k} \cup {<<k, v>>}

RECURSIVE CommandEnvs(_, _)
CommandEnvs(m, envs) ==
    IF envs = << >> THEN m
    ELSE CommandEnvs(Insert(m, envs[1][1], envs[1][2]), Tail(envs))

CaptureEnvParentWins(parent, m) ==
    parent \cup {p \in m : p[1] \notin KeysOf(parent)}
CaptureEnv(parent, m) ==
    m \cup {p \in parent : p[1] \notin KeysOf(m)}

(***************************************************************************)
(* State.                                                                  *)
(***************************************************************************)
VARIABLES
    env,      \* Executor.env (line 14)
    given,    \* the list passed to Executor::new (history)
    penv,     \* the environment of the calling process
    pc,       \* per thread: the state of its current launch
    args,     \* per thread: the args of its current run call
    envs,     \* per thread: the clone of env handed to Execution::run
    exec,     \* per thread: Option of the Execution built at lines 70-77
    child,    \* per thread: the sub-process of its current launch
    spawned,  \* per thread: processes created by its current launch
    panic,    \* per thread: the panic of its current launch
    fmtlog,   \* per thread: whether fmt ran, and the streams it decoded
    fexec,    \* SpecFmt: the Execution value given to fmt
    fres      \* SpecFmt: Option of fmt's result

tvars == <<pc, args, envs, exec, child, spawned, panic, fmtlog>>
fvars == <<fexec, fres>>
vars == <<env, given, penv, pc, args, envs, exec, child, spawned, panic,
          fmtlog, fexec, fres>>

NoChild == [state |-> "none", env |-> {}, status |-> 0,
            stdout |-> << >>, stderr |-> << >>]
NoPanic == [kind |-> "none", diag |-> << >>]
NoFmt == [fmt |-> FALSE, decoded |-> {}]

Completed(t) == pc[t] \in {"Returned", "Panicked"}

InitThreads ==
    /\ pc = [t \in Threads |-> "Idle"]
    /\ args = [t \in Threads |-> << >>]
    /\ envs = [t \in Threads |-> << >>]
    /\ exec = [t \in Threads |-> << >>]
    /\ child = [t \in Threads |-> NoChild]
    /\ spawned = [t \in Threads |-> 0]
    /\ panic = [t \in Threads |-> NoPanic]
    /\ fmtlog = [t \in Threads |-> NoFmt]

\* Executor::new (lines 26-28) with the list e, in a process whose
\* environment is p.
New(e, p) ==
    /\ env = e
    /\ given = e
    /\ penv = p

(***************************************************************************)
(* The assertion of lines 86-89 on an Execution whose result is set: the   *)
(* message format!("{}", exec) is evaluated only when the status is not a  *)
(* success.                                                                *)
(***************************************************************************)
CheckStatusEager(e) ==
    LET f == Fmt(e)
    IN  IF ~f.ok
        THEN [pc |-> "Panicked",
              panic |-> [kind |-> "Utf8Error", diag |-> << >>],
              fmtlog |-> [fmt |-> TRUE, decoded |-> f.decoded]]
        ELSE IF Success(e.result[1].status)
        THEN [pc |-> "Returned", panic |-> NoPanic,
              fmtlog |-> [fmt |-> TRUE, decoded |-> f.decoded]]
        ELSE [pc |-> "Panicked",
              panic |-> [kind |-> "NonSuccessExit", diag |-> f.out],
              fmtlog |-> [fmt |-> TRUE, decoded |-> f.decoded]]

CheckStatus(e) ==
    IF Success(e.result[1].status)
    THEN [pc |-> "Returned", panic |-> NoPanic, fmtlog |-> NoFmt]
    ELSE LET f == Fmt(e)
         IN  [pc |-> "Panicked",
              panic |-> IF f.ok
                        THEN [kind |-> "NonSuccessExit", diag |-> f.out]
                        ELSE [kind |-> "Utf8Error", diag |-> << >>],
              fmtlog |-> [fmt |-> TRUE, decoded |-> f.decoded]]

(***************************************************************************)
(* Executor::run (lines 46-52): thread t calls run(a) on the shared        *)
(* Executor; the bindings are cloned for the launch.  A thread whose       *)
(* previous call returned, or whose panic was caught, may call again.      *)
(***************************************************************************)
RunTake(t, a) ==
    /\ pc[t] \in {"Idle", "Returned", "Panicked"}
    /\ pc' = [pc EXCEPT ![t] = "NotStarted"]
    /\ args' = [args EXCEPT ![t] = a]
    /\ envs' = [envs EXCEPT ![t] = env]
    /\ env' = << >>
    /\ exec' = [exec EXCEPT ![t] = << >>]
    /\ child' = [child EXCEPT ![t] = NoChild]
    /\ spawned' = [spawned EXCEPT ![t] = 0]
    /\ panic' = [panic EXCEPT ![t] = NoPanic]
    /\ fmtlog' = [fmtlog EXCEPT ![t] = NoFmt]
    /\ UNCHANGED <<given, penv, fvars>>

Run(t, a) ==
    /\ pc[t] \in {"Idle", "Returned", "Panicked"}
    /\ pc' = [pc EXCEPT ![t] = "NotStarted"]
    /\ args' = [args EXCEPT ![t] = a]
    /\ envs' = [envs EXCEPT ![t] = env]
    /\ exec' = [exec EXCEPT ![t] = << >>]
    /\ child' = [child EXCEPT ![t] = NoChild]
    /\ spawned' = [spawned EXCEPT ![t] = 0]
    /\ panic' = [panic EXCEPT ![t] = NoPanic]
    /\ fmtlog' = [fmtlog EXCEPT ![t] = NoFmt]
    /\ UNCHANGED <<env, given, penv, fvars>>

(***************************************************************************)
(* Execution::run up to the creation of the sub-process (lines 69-85):     *)
(* the first token is the command and its absence panics; then the command *)
(* is spawned with the bindings.  spawnOk is the operating system's answer *)
(* to the spawn.                                                           *)
(***************************************************************************)
LaunchDefaultCmd(t, spawnOk) ==
    /\ pc[t] = "NotStarted"
    /\ LET cmd == IF args[t] = << >> THEN << >> ELSE Head(args[t])
           rest == IF args[t] = << >> THEN << >> ELSE Tail(args[t])
       IN
       /\ exec' = [exec EXCEPT ![t] = <<Execution(cmd, rest, << >>)>>]
       /\ IF spawnOk
          THEN /\ pc' = [pc EXCEPT ![t] = "Running"]
               /\ child' = [child EXCEPT ![t] =
                     [NoChild EXCEPT !.state = "alive",
                        !.env = CaptureEnv(penv, CommandEnvs({}, envs[t]))]]
               /\ spawned' = [spawned EXCEPT ![t] = @ + 1]
               /\ UNCHANGED panic
          ELSE /\ pc' = [pc EXCEPT ![t] = "Panicked"]
               /\ panic' = [panic EXCEPT ![t] =
                     [kind |-> "Failed to execute command", diag |-> << >>]]
               /\ UNCHANGED <<child, spawned>>
    /\ UNCHANGED <<env, given, penv, args, envs, fmtlog, fvars>>

Launch(t, spawnOk) ==
    /\ pc[t] = "NotStarted"
    /\ IF args[t] = << >>
       THEN /\ pc' = [pc EXCEPT ![t] = "Panicked"]
            /\ panic' = [panic EXCEPT ![t] =
                  [kind |-> "Missing command", diag |-> << >>]]
            /\ UNCHANGED <<exec, child, spawned>>
       ELSE /\ exec' = [exec EXCEPT ![t] =
                  <<Execution(Head(args[t]), Tail(args[t]), << >>)>>]
            /\ IF spawnOk
               THEN /\ pc' = [pc EXCEPT ![t] = "Running"]
                    /\ child' = [child EXCEPT ![t] =
                          [NoChild EXCEPT !.state = "alive",
                             !.env = CaptureEnv(penv,
                                        CommandEnvs({}, envs[t]))]]
                    /\ spawned' = [spawned EXCEPT ![t] = @ + 1]
                    /\ UNCHANGED panic
               ELSE /\ pc' = [pc EXCEPT ![t] = "Panicked"]
                    /\ panic' = [panic EXCEPT ![t] =
                          [kind |-> "Failed to execute command",
                           diag |-> << >>]]
                    /\ UNCHANGED <<child, spawned>>
    /\ UNCHANGED <<env, given, penv, args, envs, fmtlog, fvars>>

(***************************************************************************)
(* The sub-process of thread t's launch writes out and err and exits with  *)
(* status; Command::output (line 83) collects them.                        *)
(***************************************************************************)
ChildExit(t, status, out, err) ==
    /\ child[t].state = "alive"
    /\ child' = [child EXCEPT ![t] =
          [@ EXCEPT !.state = "exited", !.status = status,
                    !.stdout = out, !.stderr = err]]
    /\ UNCHANGED <<env, given, penv, pc, args, envs, exec, spawned, panic,
                   fmtlog, fvars>>

(***************************************************************************)
(* Execution::run from the return of Command::output (lines 79-90): the    *)
(* wait ends when the sub-process has exited, the Output is stored and the *)
(* status is asserted.                                                     *)
(***************************************************************************)
CompleteShared(t) ==
    /\ pc[t] = "Running"
    /\ child[t].state = "exited"
    /\ \E u \in Threads :
         /\ child[u].state = "exited"
         /\ LET e == [exec[t][1] EXCEPT !.result =
                       <<Output(child[u].status, child[u].stdout,
                                child[u].stderr)>>]
                c == CheckStatus(e)
            IN  /\ exec' = [exec EXCEPT ![t] = <<e>>]
                /\ pc' = [pc EXCEPT ![t] = c.pc]
                /\ panic' = [panic EXCEPT ![t] = c.panic]
                /\ fmtlog' = [fmtlog EXCEPT ![t] = c.fmtlog]
    /\ UNCHANGED <<env, given, penv, args, envs, child, spawned, fvars>>

CompleteNoWait(t) ==
    /\ pc[t] = "Running"
    /\ LET e == [exec[t][1] EXCEPT !.result =
                  <<Output(child[t].status, child[t].stdout,
                           child[t].stderr)>>]
           c == CheckStatus(e)
       IN  /\ exec' = [exec EXCEPT ![t] = <<e>>]
           /\ pc' = [pc EXCEPT ![t] = c.pc]
           /\ panic' = [panic EXCEPT ![t] = c.panic]
           /\ fmtlog' = [fmtlog EXCEPT ![t] = c.fmtlog]
    /\ UNCHANGED <<env, given, penv, args, envs, child, spawned, fvars>>

Complete(t) ==
    /\ pc[t] = "Running"
    /\ child[t].state = "exited"
    /\ LET e == [exec[t][1] EXCEPT !.result =
                  <<Output(child[t].status, child[t].stdout,
                           child[t].stderr)>>]
           c == CheckStatus(e)
       IN  /\ exec' = [exec EXCEPT ![t] = <<e>>]
           /\ pc' = [pc EXCEPT ![t] = c.pc]
           /\ panic' = [panic EXCEPT ![t] = c.panic]
           /\ fmtlog' = [fmtlog EXCEPT ![t] = c.fmtlog]
    /\ UNCHANGED <<env, given, penv, args, envs, child, spawned, fvars>>

(***************************************************************************)
(* SpecFmt: format!("{}", exec) on the Execution value fexec.              *)
(***************************************************************************)
Executions ==
    {Execution(c, a, r) :
        c \in Tokens, a \in ArgLists,
        r \in {<< >>} \cup {<<Output(s, o, x)>> :
                              s \in ExitCodes, o \in ByteStrings,
                              x \in ByteStrings}}

Format ==
    /\ fres = << >>
    /\ fres' = <<Fmt(fexec)>>
    /\ UNCHANGED <<env, given, penv, tvars, fexec>>

(***************************************************************************)
(* Specifications.                                                         *)
(***************************************************************************)
NoFormat == fexec = Execution(<<104>>, << >>, << >>) /\ fres = << >>

Init ==
    /\ \E e \in SampleEnvs : \E p \in SampleParent : New(e, p)
    /\ InitThreads
    /\ NoFormat

Next ==
    \E t \in Threads :
        \/ \E a \in SampleArgs : Run(t, a)
        \/ \E ok \in BOOLEAN : Launch(t, ok)
        \/ \E s \in ExitCodes : \E o \in SampleStreams :
              \E x \in SampleStreams : ChildExit(t, s, o, x)
        \/ Complete(t)

Spec == Init /\ [][Next]_vars

InitEnv ==
    /\ \E e \in EnvLists : \E p \in EnvBlocks : New(e, p)
    /\ InitThreads
    /\ NoFormat

NextEnv ==
    \/ \E a \in SampleArgs : Run(1, a)
    \/ \E ok \in BOOLEAN : Launch(1, ok)
    \/ \E s \in ExitCodes : ChildExit(1, s, << >>, << >>)
    \/ Complete(1)

SpecEnv == InitEnv /\ [][NextEnv]_vars

InitFmt ==
    /\ New(<< >>, {})
    /\ InitThreads
    /\ fexec \in Executions
    /\ fres = << >>

NextFmt == Format

SpecFmt == InitFmt /\ [][NextFmt]_vars

(***************************************************************************)
(* Properties.                                                             *)
(***************************************************************************)
InvalidOutput(c) == ~Utf8Valid(c.stdout) \/ ~Utf8Valid(c.stderr)

\* The index of the last binding of key k in the list e.
LastOf(e, k) ==
    CHOOSE i \in 1..Len(e) :
        e[i][1] = k /\ \A j \in (i + 1)..Len(e) : e[j][1] # k

SuppliedKeys(e) == {e[i][1] : i \in 1..Len(e)}

C2_MissingCommand ==
    \A t \in Threads :
        (pc[t] # "Idle" /\ args[t] = << >>) =>
            /\ spawned[t] = 0
            /\ child[t].state = "none"
            /\ pc[t] \in {"NotStarted", "Panicked"}
            /\ pc[t] = "Panicked" => panic[t].kind = "Missing command"

C2_Witness ==
    \E t \in Threads :
        /\ args[t] = << >> /\ pc[t] = "Panicked"
        /\ env # << >> /\ spawned[t] = 0

\* C3 as stated: the launched child observes K equal to V for every binding
\* (K, V) of the list given to new, lists that repeat a key included.
C3_EveryBindingObserved ==
    \A t \in Threads :
        child[t].state # "none" =>
            \A i \in 1..Len(given) : given[i] \in child[t].env

\* C3 as amended: the launched child observes K equal to V for every binding
\* (K, V) of the list that no later binding of the same key follows; of
\* several bindings of one key it observes the last.
C3_LastBindingObserved ==
    \A t \in Threads :
        child[t].state # "none" =>
            \A i \in 1..Len(given) :
                (\A j \in (i + 1)..Len(given) : given[j][1] # given[i][1])
                    => /\ given[i] \in child[t].env
                       /\ \A v \in Vals :
                            <<given[i][1], v>> \in child[t].env
                                => v = given[i][2]

C3_Witness ==
    \E t \in Threads :
        /\ child[t].state # "none"
        /\ Len(given) = 2
        /\ given[1][1] = given[2][1] /\ given[1][2] # given[2][2]
        /\ given[2] \in child[t].env

\* C4: the child's environment is the calling process's environment merged
\* with the supplied bindings: a key present in both has the supplied value,
\* a key only the parent has keeps the parent's value, and the environment
\* of the calling process is never changed.
C4_MergedEnvironment ==
    /\ [](\A t \in Threads :
            child[t].state # "none" =>
                /\ IsEnvBlock(child[t].env)
                /\ KeysOf(child[t].env) = KeysOf(penv) \cup SuppliedKeys(given)
                /\ \A k \in KeysOf(penv) \cap SuppliedKeys(given) :
                      <<k, given[LastOf(given, k)][2]>> \in child[t].env
                /\ \A p \in penv :
                      p[1] \notin SuppliedKeys(given) => p \in child[t].env)
    /\ [][penv' = penv]_vars

C4_Witness ==
    \E t \in Threads :
        /\ child[t].state # "none"
        /\ \E p \in penv : \E i \in 1..Len(given) :
              /\ p[1] = given[i][1] /\ p[2] # given[i][2]
              /\ given[i] \in child[t].env
        /\ \E p \in penv : p[1] \notin SuppliedKeys(given)

\* C5 as stated: run panics whenever the sub-process wrote invalid UTF-8 to
\* stdout or stderr, whatever its exit status.
C5_InvalidUtf8Panics ==
    \A t \in Threads :
        (Completed(t) /\ child[t].state = "exited" /\ InvalidOutput(child[t]))
            => pc[t] = "Panicked"

C7_WantedSections(e) ==
    IF e.result = << >> THEN <<"cmd">>
    ELSE <<"cmd">>
         \o (IF e.result[1].status # 0 THEN <<"status">> ELSE << >>)
         \o (IF e.result[1].stdout # << >> THEN <<"stdout">> ELSE << >>)
         \o (IF e.result[1].stderr # << >> THEN <<"stderr">> ELSE << >>)

C7_WantedText(e, sec) ==
    CASE sec = "cmd" ->
            Join(<<ToStringLossy(e.cmd)>>
                 \o [i \in 1..Len(e.args) |-> ToStringLossy(e.args[i])])
      [] sec = "status" -> <<48 + e.result[1].status>>
      [] sec = "stdout" -> Decode(e.result[1].stdout)
      [] sec = "stderr" -> Decode(e.result[1].stderr)

C7_DiagnosticSections ==
    fres # << >> =>
        LET f == fres[1]
            want == C7_WantedSections(fexec)
        IN  /\ f.ok <=> (fexec.result = << >>
                         \/ ~InvalidOutput(fexec.result[1]))
            /\ Len(f.out) >= 1
            /\ Len(f.out) <= Len(want)
            /\ \A i \in 1..Len(f.out) :
                  /\ f.out[i].sec = want[i]
                  /\ f.out[i].text = C7_WantedText(fexec, want[i])
            /\ f.ok => Len(f.out) = Len(want)

C7_Witness ==
    /\ fres # << >>
    /\ fres[1].ok
    /\ Len(fres[1].out) = 4
    /\ fexec.args # << >>
    /\ fexec.result[1].stdout # fexec.result[1].stderr

\* C8: no run call changes the Executor's binding list: it is always the
\* list given to new, every launch is handed that list, and the outcome of
\* a completed launch is not changed by any later launch.
C8_BindingsUnchanged ==
    /\ [](env = given
          /\ \A t \in Threads : pc[t] # "Idle" => envs[t] = given)
    /\ [][/\ env' = env
          /\ \A t \in Threads :
                (Completed(t) /\ pc'[t] \in {"Returned", "Panicked"}) =>
                    /\ pc'[t] = pc[t]
                    /\ panic'[t] = panic[t]
                    /\ exec'[t] = exec[t]
                    /\ child'[t] = child[t]]_vars

C8_Witness ==
    \E t \in Threads : \E u \in Threads :
        /\ given # << >> /\ env = given
        /\ pc[t] = "Returned" /\ envs[t] = given
        /\ pc[u] = "Panicked" /\ panic[u].kind = "NonSuccessExit"
        /\ envs[u] = given

\* C9: with several callers on one Executor, every launch has its own child
\* spawned with the Executor's bindings, and its captured output, status
\* and outcome are those of its own child, under every interleaving.
C9_LaunchesIndependent ==
    \A t \in Threads :
        /\ pc[t] # "Idle" => envs[t] = given
        /\ child[t].state # "none" =>
              \A k \in SuppliedKeys(given) :
                  <<k, given[LastOf(given, k)][2]>> \in child[t].env
        /\ (exec[t] # << >> /\ exec[t][1].result # << >>) =>
              /\ child[t].state = "exited"
              /\ exec[t][1].result[1].status = child[t].status
              /\ exec[t][1].result[1].stdout = child[t].stdout
              /\ exec[t][1].result[1].stderr = child[t].stderr
        /\ (Completed(t) /\ child[t].state = "exited") =>
              /\ pc[t] = "Returned" <=> child[t].status = 0
              /\ panic[t].kind = "Utf8Error" <=>
                    (child[t].status # 0 /\ InvalidOutput(child[t]))
              /\ panic[t].kind = "NonSuccessExit" =>
                    \A i \in 1..Len(panic[t].diag) :
                        /\ panic[t].diag[i].sec = "stdout" =>
                              panic[t].diag[i].text = Decode(child[t].stdout)
                        /\ panic[t].diag[i].sec = "stderr" =>
                              panic[t].diag[i].text = Decode(child[t].stderr)

C9_Witness ==
    \E t \in Threads : \E u \in Threads :
        /\ pc[t] = "Returned"
        /\ pc[u] = "Panicked" /\ panic[u].kind = "NonSuccessExit"
        /\ child[t].stdout # child[u].stdout
        /\ child[t].stderr # child[u].stderr

\* C10: a launch only moves forwards through NotStarted, Running and
\* Completed, creates at most one process, has its outcome decided only
\* after its child exited, and leaves Running only when the child exited.
C10_ForwardSteps ==
    {<<"NotStarted", "Running">>, <<"NotStarted", "Panicked">>,
     <<"Running", "Returned">>, <<"Running", "Panicked">>}

C10_NewLaunch ==
    {<<"Idle", "NotStarted">>, <<"Returned", "NotStarted">>,
     <<"Panicked", "NotStarted">>}

C10_LaunchStateMachine ==
    /\ [](\A t \in Threads :
            /\ spawned[t] <= 1
            /\ pc[t] = "Running" =>
                  (spawned[t] = 1 /\ child[t].state \in {"alive", "exited"})
            /\ (pc[t] = "Returned"
                \/ (pc[t] = "Panicked"
                    /\ panic[t].kind \in {"NonSuccessExit", "Utf8Error"}))
                  => child[t].state = "exited")
    /\ [][\A t \in Threads :
            /\ pc'[t] # pc[t] =>
                  <<pc[t], pc'[t]>> \in C10_ForwardSteps \cup C10_NewLaunch
            /\ <<pc[t], pc'[t]>> \notin C10_NewLaunch =>
                  spawned'[t] >= spawned[t]
            /\ (pc[t] = "Running" /\ child[t].state = "alive") =>
                  pc'[t] = "Running"]_vars

C10_Witness ==
    \E t \in Threads : \E u \in Threads :
        /\ pc[t] = "Running" /\ child[t].state = "alive"
        /\ pc[u] = "Panicked" /\ panic[u].kind = "NonSuccessExit"
        /\ spawned[u] = 1

====
